---- MODULE Spec2Model ----
(***************************************************************************)
(* A model of gowiki (src/wiki.go): a wiki whose pages live in one MongoDB *)
(* collection and are served by five net/http handlers.                    *)
(*                                                                         *)
(* The collection is a sequence of documents in natural order.  The driver *)
(* calls the program makes (ReplaceOne, DeleteOne, FindOne, Find) are      *)
(* modelled with the options the program passes them: none, so ReplaceOne  *)
(* runs with the driver's default upsert = false.  A path is a sequence of *)
(* one-character strings, as the handler registered with the mux receives  *)
(* it.                                                                     *)
(***************************************************************************)
EXTENDS Integers, Sequences, FiniteSets, TLC

VARIABLES
    store,      \* the documents of pagesCollection, in natural order
    serving,    \* TRUE while the process runs (log.Fatal ends it)
    last,       \* the request handled last: its input, response and effects
    store0,     \* concurrent runs: the collection before the batch of requests
    reqs,       \* concurrent runs: the requests accepted, in order of arrival
    pending     \* concurrent runs: indices of reqs whose handler has not run yet

vars == <<store, serving, last, store0, reqs, pending>>

----------------------------------------------------------------------------
(* Bounds of the model *)

MaxTitleLen == 2    \* longest text after "/<verb>/" in a request path
MaxDocs == 2        \* most documents in the collection at start
MaxConc == 2        \* most requests in flight together

\* characters request paths are drawn from: letters, a digit and non-alphanumerics
TitleChars == {"a", "Z", "7", "/", " "}
\* bodies found in documents and in the "body" form field
Bodies == {"hello", "bye"}
\* titles of the documents the collection may hold at start
SeedTitles == {<<"a">>, <<"7">>, <<"Z", "a">>}
\* titles addressed by the requests of a concurrent batch
ConcTitles == {<<"a">>, <<"7">>}

SeqsUpTo(S, n) == UNION {[1..k -> S] : k \in 0..n}

----------------------------------------------------------------------------
(* Values *)

Nil == "nil"

StatusOK == 200
StatusFound == 302
StatusNotFound == 404
StatusInternalServerError == 500

Chars(s) == {s[i] : i \in 1..Len(s)}

Lower == {"a","b","c","d","e","f","g","h","i","j","k","l","m",
          "n","o","p","q","r","s","t","u","v","w","x","y","z"}
Upper == {"A","B","C","D","E","F","G","H","I","J","K","L","M",
          "N","O","P","Q","R","S","T","U","V","W","X","Y","Z"}
Digit == {"0","1","2","3","4","5","6","7","8","9"}

\* the character class [a-zA-Z0-9] of validPath
TitleClass(c) == c \in Lower \cup Upper \cup Digit

\* the alternation (edit|save|view|delete) of validPath
Alternatives == << <<"e","d","i","t">>, <<"s","a","v","e">>,
                   <<"v","i","e","w">>, <<"d","e","l","e","t","e">> >>

Slash == <<"/">>
ViewPrefix == <<"/","v","i","e","w","/">>
EditPrefix == <<"/","e","d","i","t","/">>
SavePrefix == <<"/","s","a","v","e","/">>
DeletePrefix == <<"/","d","e","l","e","t","e","/">>
ListPath == <<"/","l","i","s","t">>

ErrPageNotFound == "Page not found"
ErrStorage == "storage error"

----------------------------------------------------------------------------
(* validPath: ^/(edit|save|view|delete)/([a-zA-Z0-9]+)$ *)

\* w occurs in s at position i
LiteralAt(s, i, w) ==
    /\ i + Len(w) - 1 <= Len(s)
    /\ \A k \in 1..Len(w) : s[i + k - 1] = w[k]

\* [a-zA-Z0-9]+ is greedy: the position after the longest run starting at i
RECURSIVE ClassRun(_, _)
ClassRun(s, i) ==
    IF i <= Len(s) /\ TitleClass(s[i]) THEN ClassRun(s, i + 1) ELSE i

\* the pattern without its closing $: a match may stop before the end of the path
FindStringSubmatchUnanchored(path) ==
    LET alts == {k \in 1..Len(Alternatives) :
                    /\ LiteralAt(path, 1, Slash)
                    /\ LiteralAt(path, 2, Alternatives[k])
                    /\ LiteralAt(path, 2 + Len(Alternatives[k]), Slash)}
    IN  IF alts = {} THEN <<>>
        ELSE LET k == CHOOSE x \in alts : TRUE
                 from == Len(Alternatives[k]) + 3
                 to == ClassRun(path, from)
             IN  IF to > from
                 THEN <<SubSeq(path, 1, to - 1), Alternatives[k], SubSeq(path, from, to - 1)>>
                 ELSE <<>>

\* validPath.FindStringSubmatch(path): <<>> (a nil slice) when the path does not
\* match, else <<whole match, verb, title>>
FindStringSubmatch(path) ==
    LET alts == {k \in 1..Len(Alternatives) :
                    /\ LiteralAt(path, 1, Slash)
                    /\ LiteralAt(path, 2, Alternatives[k])
                    /\ LiteralAt(path, 2 + Len(Alternatives[k]), Slash)}
    IN  IF alts = {} THEN <<>>
        ELSE LET k == CHOOSE x \in alts : TRUE
                 from == Len(Alternatives[k]) + 3
                 to == ClassRun(path, from)
             IN  IF to > from /\ to = Len(path) + 1
                 THEN <<path, Alternatives[k], SubSeq(path, from, to - 1)>>
                 ELSE <<>>

----------------------------------------------------------------------------
(* pagesCollection: the driver calls the program makes *)

\* what can go wrong in a storage call: nothing, the call returns an error,
\* or a document it found does not decode
Failures == {"none", "operation", "decode"}

NoDoc == [title |-> <<>>, body |-> ""]
NoPage == [Title |-> <<>>, Body |-> ""]     \* a nil *Page

\* bson.D{{"title", title}}
TitleFilter(title) == [title |-> title]

\* an empty filter, bson.D{}: every document matches
MatchesEveryDocument(doc, filter) == TRUE

Matches(doc, filter) == doc.title = filter.title

\* index of the first document in natural order the filter matches, or 0
FirstMatch(coll, filter) ==
    LET hits == {i \in 1..Len(coll) : Matches(coll[i], filter)}
    IN  IF hits = {} THEN 0 ELSE CHOOSE i \in hits : \A j \in hits : i <= j

RemoveAt(coll, i) ==
    [k \in 1..(Len(coll) - 1) |-> IF k < i THEN coll[k] ELSE coll[k + 1]]

\* the replacement is inserted as a new document, whatever the filter matches
ReplaceOneInserting(coll, filter, replacement, fail) ==
    IF fail = "operation" THEN [coll |-> coll, err |-> ErrStorage]
    ELSE [coll |-> Append(coll, replacement), err |-> Nil]

\* ReplaceOne(ctx, filter, replacement) with no options: upsert is off, so an
\* unmatched filter changes nothing and is no error
ReplaceOne(coll, filter, replacement, fail) ==
    IF fail = "operation" THEN [coll |-> coll, err |-> ErrStorage]
    ELSE LET i == FirstMatch(coll, filter)
         IN  IF i = 0 THEN [coll |-> coll, err |-> Nil]
             ELSE [coll |-> [coll EXCEPT ![i] = replacement], err |-> Nil]

\* DeleteOne(ctx, filter): removes the first match; an unmatched filter is no error
DeleteOne(coll, filter, fail) ==
    IF fail = "operation" THEN [coll |-> coll, err |-> ErrStorage]
    ELSE LET i == FirstMatch(coll, filter)
         IN  IF i = 0 THEN [coll |-> coll, err |-> Nil]
             ELSE [coll |-> RemoveAt(coll, i), err |-> Nil]

\* FindOne(ctx, filter).Decode(&result)
FindOneDecode(coll, filter, fail) ==
    IF fail = "operation" THEN [doc |-> NoDoc, err |-> ErrStorage]
    ELSE LET i == FirstMatch(coll, filter)
         IN  IF i = 0 THEN [doc |-> NoDoc, err |-> "mongo: no documents in result"]
             ELSE IF fail = "decode" THEN [doc |-> NoDoc, err |-> ErrStorage]
             ELSE [doc |-> coll[i], err |-> Nil]

\* Find(ctx, bson.D{}): a cursor over every document
Find(coll, fail) ==
    IF fail = "operation" THEN [docs |-> <<>>, err |-> ErrStorage]
    ELSE [docs |-> coll, err |-> Nil]

----------------------------------------------------------------------------
(* The page store of the program *)

\* (p *Page) save()
save(p, coll, fail) ==
    ReplaceOne(coll, TitleFilter(p.Title), [title |-> p.Title, body |-> p.Body], fail)

\* the delete is acknowledged and nothing is removed
deletePageKeeping(title, coll, fail) ==
    [coll |-> coll, err |-> IF fail = "operation" THEN ErrStorage ELSE Nil]

deletePage(title, coll, fail) ==
    DeleteOne(coll, TitleFilter(title), fail)

\* every error of the lookup becomes the same "Page not found"
loadPage(title, coll, fail) ==
    LET r == FindOneDecode(coll, TitleFilter(title), fail)
    IN  IF r.err # Nil THEN [page |-> NoPage, err |-> ErrPageNotFound]
        ELSE [page |-> [Title |-> r.doc.title, Body |-> r.doc.body], err |-> Nil]

\* log.Fatal on a failed query, and on a failed decode of a document the cursor
\* yields: fatal says the process exited inside the call
listPages(coll, fail) ==
    LET r == Find(coll, fail)
    IN  IF r.err # Nil THEN [names |-> <<>>, err |-> Nil, fatal |-> TRUE]
        ELSE IF fail = "decode" /\ Len(r.docs) > 0
             THEN [names |-> <<>>, err |-> Nil, fatal |-> TRUE]
        ELSE [names |-> [i \in 1..Len(r.docs) |-> r.docs[i].title],
              err |-> Nil, fatal |-> FALSE]

----------------------------------------------------------------------------
(* Responses *)

Response(status, location, tmpl, page, names, text) ==
    [status |-> status, location |-> location, tmpl |-> tmpl,
     page |-> page, names |-> names, text |-> text]

\* http.Redirect(w, r, location, http.StatusFound)
Redirect(location) == Response(StatusFound, location, "", NoPage, <<>>, "")

\* http.Error(w, text, http.StatusInternalServerError)
ServerError(text) == Response(StatusInternalServerError, <<>>, "", NoPage, <<>>, text)

\* http.NotFound(w, r)
NotFound == Response(StatusNotFound, <<>>, "", NoPage, <<>>, "404 page not found")

\* templates.ExecuteTemplate(w, tmpl+".html", p)
renderPageTemplate(tmpl, p) == Response(StatusOK, <<>>, tmpl, p, <<>>, "")

\* the process exited before anything was written
NoResponse == Response(0, <<>>, "", NoPage, <<>>, "")

\* what running a handler gives: the response, the collection afterwards, the
\* storage calls made, and whether the process still runs
Outcome(resp, coll, ops, alive) ==
    [resp |-> resp, coll |-> coll, ops |-> ops, alive |-> alive]

----------------------------------------------------------------------------
(* Handlers *)

\* the error of loadPage is not looked at: the view template is always rendered
viewHandlerAlwaysRendering(coll, title, form, fail) ==
    LET r == loadPage(title, coll, fail)
    IN  Outcome(renderPageTemplate("view", r.page), coll, <<"FindOne">>, TRUE)

viewHandler(coll, title, form, fail) ==
    LET r == loadPage(title, coll, fail)
    IN  IF r.err # Nil
        THEN Outcome(Redirect(EditPrefix \o title), coll, <<"FindOne">>, TRUE)
        ELSE Outcome(renderPageTemplate("view", r.page), coll, <<"FindOne">>, TRUE)

\* a page that is not found is an error, as a failed save is
editHandlerFailingOnMissing(coll, title, form, fail) ==
    LET r == loadPage(title, coll, fail)
    IN  IF r.err # Nil
        THEN Outcome(ServerError(r.err), coll, <<"FindOne">>, TRUE)
        ELSE Outcome(renderPageTemplate("edit", r.page), coll, <<"FindOne">>, TRUE)

editHandler(coll, title, form, fail) ==
    LET r == loadPage(title, coll, fail)
        p == IF r.err # Nil THEN [Title |-> title, Body |-> ""] ELSE r.page
    IN  Outcome(renderPageTemplate("edit", p), coll, <<"FindOne">>, TRUE)

saveHandler(coll, title, form, fail) ==
    LET p == [Title |-> title, Body |-> form]
        r == save(p, coll, fail)
    IN  IF r.err # Nil
        THEN Outcome(ServerError(r.err), r.coll, <<"ReplaceOne">>, TRUE)
        ELSE Outcome(Redirect(ViewPrefix \o title), r.coll, <<"ReplaceOne">>, TRUE)

deleteHandler(coll, title, form, fail) ==
    LET r == deletePage(title, coll, fail)
    IN  IF r.err # Nil
        THEN Outcome(ServerError(r.err), r.coll, <<"DeleteOne">>, TRUE)
        ELSE Outcome(Redirect(ListPath), r.coll, <<"DeleteOne">>, TRUE)

listHandler(coll, fail) ==
    LET r == listPages(coll, fail)
    IN  IF r.fatal THEN Outcome(NoResponse, coll, <<"Find">>, FALSE)
        ELSE IF r.err # Nil THEN Outcome(Redirect(ListPath), coll, <<"Find">>, TRUE)
        ELSE Outcome(Response(StatusOK, <<>>, "list", NoPage, r.names, ""),
                     coll, <<"Find">>, TRUE)

\* the function makeHandler wraps, by the name it is registered under
Handler(fn, coll, title, form, fail) ==
    CASE fn = "view" -> viewHandler(coll, title, form, fail)
      [] fn = "edit" -> editHandler(coll, title, form, fail)
      [] fn = "save" -> saveHandler(coll, title, form, fail)
      [] fn = "delete" -> deleteHandler(coll, title, form, fail)

\* makeHandler(fn): 404 unless the whole path matches validPath, else fn with
\* the second capture group
makeHandler(fn, coll, path, form, fail) ==
    LET m == FindStringSubmatch(path)
    IN  IF m = <<>>
        THEN [out |-> Outcome(NotFound, coll, <<>>, TRUE),
              invoked |-> FALSE, title |-> <<>>]
        ELSE [out |-> Handler(fn, coll, m[3], form, fail),
              invoked |-> TRUE, title |-> m[3]]

----------------------------------------------------------------------------
(* State *)

\* the texts that follow "/<verb>/" in the request paths
Rests == SeqsUpTo(TitleChars, MaxTitleLen)

SeedDocs == [title : SeedTitles, body : Bodies]

\* one document per title: what the collection holds when pages were only
\* ever written one per title
InitStores ==
    {c \in SeqsUpTo(SeedDocs, MaxDocs) :
        \A i, j \in 1..Len(c) : c[i].title = c[j].title => i = j}

Request(fn, path, form, fail) ==
    [fn |-> fn, path |-> path, form |-> form, fail |-> fail]

\* the record of a handled request
Handled(req, invoked, title, out, before) ==
    [fn |-> req.fn, path |-> req.path, form |-> req.form,
     fail |-> IF out.ops = <<>> THEN "none" ELSE req.fail,
     invoked |-> invoked, title |-> title, ops |-> out.ops,
     resp |-> out.resp, before |-> before]

NoRequest ==
    [fn |-> "none", path |-> <<>>, form |-> "", fail |-> "none",
     invoked |-> FALSE, title |-> <<>>, ops |-> <<>>,
     resp |-> NoResponse, before |-> <<>>]

Init ==
    /\ store \in InitStores
    /\ serving = TRUE
    /\ last = NoRequest
    /\ store0 = <<>>
    /\ reqs = <<>>
    /\ pending = {}

\* the handler registered for the request's path runs to its end
Serve(req) ==
    LET h == IF req.fn = "list"
             THEN [out |-> listHandler(store, req.fail), invoked |-> TRUE, title |-> <<>>]
             ELSE makeHandler(req.fn, store, req.path, req.form, req.fail)
    IN  /\ serving
        /\ store' = h.out.coll
        /\ serving' = h.out.alive
        /\ last' = Handled(req, h.invoked, h.title, h.out, store)

\* http.HandleFunc("/view/", makeHandler(viewHandler))
ViewRequest ==
    /\ last = NoRequest
    /\ \E rest \in Rests, fail \in Failures :
            Serve(Request("view", ViewPrefix \o rest, "", fail))
    /\ UNCHANGED <<store0, reqs, pending>>

\* http.HandleFunc("/edit/", makeHandler(editHandler))
EditRequest ==
    /\ last = NoRequest
    /\ \E rest \in Rests, fail \in Failures :
            Serve(Request("edit", EditPrefix \o rest, "", fail))
    /\ UNCHANGED <<store0, reqs, pending>>

\* http.HandleFunc("/delete/", makeHandler(deleteHandler))
DeleteRequest ==
    /\ last = NoRequest
    /\ \E rest \in Rests, fail \in {"none", "operation"} :
            Serve(Request("delete", DeletePrefix \o rest, "", fail))
    /\ UNCHANGED <<store0, reqs, pending>>

\* http.HandleFunc("/save/", makeHandler(saveHandler))
SaveRequest ==
    /\ last = NoRequest
    /\ \E rest \in Rests, form \in Bodies, fail \in {"none", "operation"} :
            Serve(Request("save", SavePrefix \o rest, form, fail))
    /\ UNCHANGED <<store0, reqs, pending>>

\* http.HandleFunc("/list", listHandler)
ListRequest ==
    /\ last = NoRequest
    /\ \E fail \in Failures : Serve(Request("list", ListPath, "", fail))
    /\ UNCHANGED <<store0, reqs, pending>>

\* the response is written and the request is over; requests are taken one at
\* a time here, see SpecConc for handlers that overlap
Complete ==
    /\ serving
    /\ last # NoRequest
    /\ last' = NoRequest
    /\ UNCHANGED <<store, serving, store0, reqs, pending>>

Next ==
    \/ ViewRequest \/ EditRequest \/ DeleteRequest \/ SaveRequest \/ ListRequest
    \/ Complete

Spec == Init /\ [][Next]_vars

----------------------------------------------------------------------------
(* Requests served concurrently: net/http runs each handler in its own        *)
(* goroutine; every handler makes one call on the shared collection, which    *)
(* the storage engine applies atomically, and nothing else is shared.         *)

PrefixOf(fn) ==
    CASE fn = "view" -> ViewPrefix
      [] fn = "edit" -> EditPrefix
      [] fn = "save" -> SavePrefix
      [] fn = "delete" -> DeletePrefix

ConcRequests ==
    {Request(fn, PrefixOf(fn) \o t, "", "none") :
        fn \in {"view", "edit", "delete"}, t \in ConcTitles}
    \cup {Request("save", SavePrefix \o t, b, "none") : t \in ConcTitles, b \in Bodies}

InitConc ==
    /\ store \in {c \in InitStores : \A i \in 1..Len(c) : c[i].title \in ConcTitles}
    /\ serving = TRUE
    /\ last = NoRequest
    /\ store0 = store
    /\ reqs = <<>>
    /\ pending = {}

\* a request arrives and its goroutine starts
Receive ==
    /\ serving
    /\ Len(reqs) < MaxConc
    /\ \E req \in ConcRequests :
            /\ reqs' = Append(reqs, req)
            /\ pending' = pending \cup {Len(reqs) + 1}
    /\ UNCHANGED <<store, serving, last, store0>>

\* the handler of one of the requests in flight runs: its storage call is the
\* only step other requests can observe
Execute ==
    /\ \E i \in pending :
            /\ Serve(reqs[i])
            /\ pending' = pending \ {i}
    /\ UNCHANGED <<store0, reqs>>

NextConc == Receive \/ Execute

SpecConc == InitConc /\ [][NextConc]_vars

----------------------------------------------------------------------------
(* Vocabulary of the properties *)

Alphanumeric == Lower \cup Upper \cup Digit

\* the titles a request can name
ValidTitles == {t \in Rests : t # <<>> /\ Chars(t) \subseteq Alphanumeric}

DocsFor(coll, title) == {i \in 1..Len(coll) : coll[i].title = title}

Stored(coll, title) == DocsFor(coll, title) # {}

\* the pages of a title: the set of bodies stored under it
PagesOf(coll, title) == {coll[i].body : i \in DocsFor(coll, title)}

\* load succeeds and returns this page
Loads(coll, title, body) ==
    loadPage(title, coll, "none") = [page |-> [Title |-> title, Body |-> body], err |-> Nil]

\* load returns the not-found error, whatever the storage does
LoadNotFound(coll, title) ==
    \A f \in Failures : loadPage(title, coll, f).err = ErrPageNotFound

\* the text after "/<verb>/" in the path of the request handled last
RestOfPath == SubSeq(last.path, Len(PrefixOf(last.fn)) + 1, Len(last.path))

Routed == last.fn \in {"view", "edit", "save", "delete"}

\* the storage call of the request handled last failed
StorageFailed ==
    \/ last.ops # <<>> /\ last.fail = "operation"
    \/ /\ last.fail = "decode"
       /\ \/ last.fn \in {"view", "edit"} /\ Stored(last.before, last.title)
          \/ last.fn = "list" /\ last.before # <<>>

SaveReturnedNoError ==
    last.fn = "save" /\ last.invoked /\ last.resp.status # StatusInternalServerError

DeleteReturnedNoError ==
    last.fn = "delete" /\ last.invoked /\ last.resp.status # StatusInternalServerError

Range(f) == {f[i] : i \in DOMAIN f}

----------------------------------------------------------------------------
(* C1 *)

\* C1: round trip. Once save(T, b) has returned without error, whether T was
\* stored before or not, load(T) succeeds and returns the body b; the first
\* save of an absent title creates its page.
C1_RoundTrip ==
    SaveReturnedNoError => Loads(store, last.title, last.form)

----------------------------------------------------------------------------
(* C2 *)

\* C2: full replace. A successful save(T, b2) of a title already stored leaves
\* exactly one document for T, that document is exactly {title: T, body: b2},
\* and the collection holds as many documents as before.
C2_FullReplace ==
    (SaveReturnedNoError /\ Stored(last.before, last.title)) =>
        /\ Cardinality(DocsFor(store, last.title)) = 1
        /\ \A i \in DocsFor(store, last.title) :
                store[i] = [title |-> last.title, body |-> last.form]
        /\ Len(store) = Len(last.before)

\* a stored title has been saved with another body than it had
C2_Witness ==
    /\ SaveReturnedNoError
    /\ Stored(last.before, last.title)
    /\ last.form \notin PagesOf(last.before, last.title)
    /\ PagesOf(store, last.title) = {last.form}

----------------------------------------------------------------------------
(* C3 *)

\* C3: delete. When delete(T) has returned without error every load(T) gives
\* the not-found error, and a title that is not found stays so through every
\* step that is not a successful save of it; delete(T) of a title that was not
\* stored returns no error and leaves the collection as it was.
C3_Delete ==
    /\ [](DeleteReturnedNoError =>
            /\ LoadNotFound(store, last.title)
            /\ ~Stored(last.before, last.title) => store = last.before)
    /\ [](last.fn = "delete" /\ last.invoked /\ ~Stored(last.before, last.title)
            /\ ~StorageFailed => DeleteReturnedNoError)
    /\ [][\A t \in ValidTitles :
            (LoadNotFound(store, t) /\ ~(SaveReturnedNoError' /\ last'.title = t))
                => LoadNotFound(store', t)]_vars

\* a stored title has been deleted
C3_Witness ==
    /\ DeleteReturnedNoError
    /\ Stored(last.before, last.title)
    /\ LoadNotFound(store, last.title)

----------------------------------------------------------------------------
(* C4 *)

\* C4: view. /view/T of a title that is not stored answers with a redirect
\* to /edit/T and renders no template; /view/T of a stored title, when the
\* lookup does not fail, renders the view template with the stored body; the
\* collection is the same before and after.
C4_View ==
    (last.fn = "view" /\ last.invoked) =>
        /\ store = last.before
        /\ ~Stored(last.before, last.title) =>
                /\ last.resp.status = StatusFound
                /\ last.resp.location = EditPrefix \o last.title
                /\ last.resp.tmpl = ""
        /\ (Stored(last.before, last.title) /\ ~StorageFailed) =>
                /\ last.resp.status = StatusOK
                /\ last.resp.tmpl = "view"
                /\ last.resp.page.Title = last.title
                /\ PagesOf(last.before, last.title) = {last.resp.page.Body}

\* a title that is not stored has been viewed
C4_Witness ==
    /\ last.fn = "view"
    /\ last.invoked
    /\ ~Stored(last.before, last.title)
    /\ last.resp.status = StatusFound

----------------------------------------------------------------------------
(* C5 *)

\* C5: edit. /edit/T of a title that is not stored renders the edit template
\* with title T and an empty body, and creates no page: the collection is the
\* same before and after.
C5_EditBlank ==
    (last.fn = "edit" /\ last.invoked /\ ~Stored(last.before, last.title)) =>
        /\ last.resp.status = StatusOK
        /\ last.resp.tmpl = "edit"
        /\ last.resp.page = [Title |-> last.title, Body |-> ""]
        /\ store = last.before

\* a title that is not stored has been opened for editing
C5_Witness ==
    /\ last.fn = "edit"
    /\ last.invoked
    /\ ~Stored(last.before, last.title)
    /\ last.resp.tmpl = "edit"

----------------------------------------------------------------------------
(* C6 *)

\* C6: routing. A path /<verb>/<rest> whose rest is empty or holds a character
\* that is not alphanumeric is answered 404, no handler is invoked and no
\* storage call is made, so the collection is unchanged; otherwise the
\* handler is invoked with exactly <rest> as the title.
C6_Routing ==
    Routed =>
        IF RestOfPath # <<>> /\ Chars(RestOfPath) \subseteq Alphanumeric
        THEN last.invoked /\ last.title = RestOfPath
        ELSE /\ last.resp.status = StatusNotFound
             /\ ~last.invoked
             /\ last.ops = <<>>
             /\ store = last.before

\* a path whose title holds a slash or a space after a letter was rejected
C6_Witness ==
    /\ Routed
    /\ Len(RestOfPath) > 1
    /\ RestOfPath[1] \in Alphanumeric
    /\ Chars(RestOfPath) \cap {"/", " "} # {}
    /\ last.resp.status = StatusNotFound

----------------------------------------------------------------------------
(* C7 *)

\* C7: list. list() returns, without error, exactly the titles load succeeds
\* for, which are the titles saved and not deleted since: so a title just
\* saved is listed; and it returns an empty sequence when nothing is stored.
C7_List ==
    LET l == listPages(store, "none")
    IN  /\ ~l.fatal /\ l.err = Nil
        /\ Range(l.names) = {t \in ValidTitles : \E b \in Bodies : Loads(store, t, b)}
        /\ store = <<>> => l.names = <<>>
        /\ SaveReturnedNoError => last.title \in Range(l.names)

----------------------------------------------------------------------------
(* C8 *)

\* C8: list failure. When the query or a decode fails during /list the
\* response is a redirect to /list and the server keeps serving.
C8_ListFailure ==
    (last.fn = "list" /\ StorageFailed) =>
        /\ last.resp.status = StatusFound
        /\ last.resp.location = ListPath
        /\ serving

----------------------------------------------------------------------------
(* C9 *)

\* C9: storage failure. In the view, edit, save and delete handlers a failed
\* storage call gives a 500 response with the error message and leaves the
\* collection unchanged; it is never answered as not-found is.
C9_StorageFailure ==
    (Routed /\ last.invoked /\ StorageFailed) =>
        /\ last.resp.status = StatusInternalServerError
        /\ last.resp.text = ErrStorage
        /\ store = last.before

----------------------------------------------------------------------------
(* C10 *)

\* the collection after the handlers of rs have run one after another in order
RECURSIVE Replay(_, _, _)
Replay(coll, rs, order) ==
    IF order = <<>> THEN coll
    ELSE LET r == rs[Head(order)]
         IN  Replay(makeHandler(r.fn, coll, r.path, r.form, r.fail).out.coll,
                    rs, Tail(order))

SerialResults == {Replay(store0, reqs, order) : order \in Permutations(1..Len(reqs))}

\* bodies of the save requests of the batch for a title
SavedBodies(title) ==
    {reqs[i].form : i \in {j \in 1..Len(reqs) :
        reqs[j].fn = "save" /\ reqs[j].path = SavePrefix \o title}}

\* the batch holds a save or a delete request for the title
Written(title) ==
    \E i \in 1..Len(reqs) :
        /\ reqs[i].fn \in {"save", "delete"}
        /\ reqs[i].path = PrefixOf(reqs[i].fn) \o title

\* C10: concurrent requests. In every state reached by interleaving the
\* handlers of save, delete, view and edit requests each title has at most one
\* document; the handler of a request for T leaves the page of every other
\* title as it was; and once all requests are done the collection is the one
\* some serial order of them gives, where every title the batch writes is
\* absent or has the body of one of its save requests.
C10_Concurrent ==
    /\ \A t \in ConcTitles : Cardinality(DocsFor(store, t)) <= 1
    /\ last.invoked =>
            \A t \in ConcTitles \ {last.title} :
                /\ DocsFor(store, t) = {} <=> DocsFor(last.before, t) = {}
                /\ PagesOf(store, t) = PagesOf(last.before, t)
    /\ (pending = {} /\ reqs # <<>>) =>
            /\ store \in SerialResults
            /\ \A t \in ConcTitles :
                    Written(t) => PagesOf(store, t) \subseteq SavedBodies(t)

\* two requests for one stored title were in flight together, a save among
\* them, their handlers ran in the other order than they arrived, and both
\* are done
C10_Witness ==
    /\ Len(reqs) >= 2
    /\ pending = {}
    /\ reqs[1].fn = "save"
    /\ reqs[2].fn \in {"save", "delete"}
    /\ last.path = reqs[1].path
    /\ last.form = reqs[1].form
    /\ RestOfPath = last.title
    /\ reqs[2].path = PrefixOf(reqs[2].fn) \o last.title
    /\ Stored(store0, last.title)
    /\ reqs[2].fn = "save" => reqs[2].form # reqs[1].form

====
